---- MODULE Spec2Model ----
(***************************************************************************)
(* Model of weather_stations.py: the decoding of the provider's            *)
(* "start|end" range strings, the normalisation of a batch of station      *)
(* rows, the choice of the nearest station whose daily data ends           *)
(* yesterday, the lookup that composes them, and the session slots the     *)
(* dashboard script fills through update_displays.                         *)
(*                                                                         *)
(* A Python string is a sequence of lexemes: the separator "|", the text   *)
(* of a calendar date, or a run of other characters.  A datetime is a      *)
(* day number, NaT its missing value, NaN a missing table cell.            *)
(***************************************************************************)
EXTENDS Integers, Sequences, FiniteSets, TLC

VARIABLES today, tieOrder, arg, ret, station, session

vars == <<today, tieOrder, arg, ret, station, session>>

\* ------------------------------------------------------------------ bounds

\* Longest range string, in lexemes.
MaxLen == 3
\* Last calendar day of the model; the wall clock runs from day 2 to MaxDay.
MaxDay == 3
\* Most normalized rows handed to choose_historical_station_id.
MaxRows == 2
\* Most raw rows in a batch handed to process_station_dates.
MaxBatch == 2
\* Most raw rows the directory fetch returns to lookup_stations.
MaxFetch == 2
\* Most raw rows the directory fetch returns in a run of the dashboard script.
MaxShown == 1

\* ------------------------------------------------------------ text and dates

Pipe == "|"

Garbage == "garbage"

\* The text strftime('%Y-%m-%d') gives each day number.
Calendar ==
  <<"2024-02-01", "2024-02-02", "2024-02-03", "2024-02-04", "2024-02-05",
    "2024-02-06", "2024-02-07", "2024-02-08", "2024-02-09">>

Days == 1..MaxDay

Lexemes == {Pipe, Garbage} \cup {Calendar[d] : d \in Days}

RECURSIVE StringsOfLen(_)
StringsOfLen(n) ==
  IF n = 0 THEN {<<>>}
  ELSE {Append(s, c) : s \in StringsOfLen(n - 1), c \in Lexemes}

RangeStrings == UNION {StringsOfLen(n) : n \in 0..MaxLen}

Timestamp(d) == [kind |-> "ts", day |-> d]

NaT == [kind |-> "NaT", day |-> 0]

\* What the conversion does when the text matches no date.
Unparsable == [kind |-> "err", day |-> 0]

Str(s) == [kind |-> "str", text |-> s]

NaN == [kind |-> "nan", text |-> <<>>]

Strftime(d) == Calendar[d]

\* pd.to_datetime(cell, format='%Y-%m-%d') on one cell: a missing cell and the
\* empty string give NaT, the text of a date gives that date, anything else
\* raises.
ToDatetime(cell) ==
  IF cell.kind = "nan" \/ cell.text = <<>> THEN NaT
  ELSE IF Len(cell.text) = 1
          /\ \E d \in 1..Len(Calendar) : Calendar[d] = cell.text[1]
       THEN Timestamp(CHOOSE d \in 1..Len(Calendar) : Calendar[d] = cell.text[1])
       ELSE Unparsable

\* ------------------------------------------------------------ outcomes

NoCall == [op |-> "none", kind |-> "none", exc |-> "", value |-> 0, day |-> 0, fetched |-> 0]

Return(op, v, d, n) ==
  [op |-> op, kind |-> "ok", exc |-> "", value |-> v, day |-> d, fetched |-> n]

\* ------------------------------------------------------------ split_date_range

PipePositions(s) == {i \in 1..Len(s) : s[i] = Pipe}

Min(S) == CHOOSE x \in S : \A y \in S : x <= y

Max(S) == CHOOSE x \in S : \A y \in S : x >= y

\* str.rsplit('|', 1): the split at the last separator.
split_date_range_last(range_col) ==
  IF PipePositions(range_col) = {} THEN <<range_col>>
  ELSE LET p == Max(PipePositions(range_col))
       IN  <<SubSeq(range_col, 1, p - 1), SubSeq(range_col, p + 1, Len(range_col))>>

\* range_col.split('|', 1): one part when there is no separator, else the text
\* before the first separator and all the text after it.
split_date_range(range_col) ==
  IF PipePositions(range_col) = {} THEN <<range_col>>
  ELSE LET p == Min(PipePositions(range_col))
       IN  <<SubSeq(range_col, 1, p - 1), SubSeq(range_col, p + 1, Len(range_col))>>

\* ------------------------------------------------------------ process_station_dates

RangeCols == {"hlyRange", "dlyRange", "mlyRange"}

DateCols ==
  {"hourly_data_start", "hourly_data_end", "daily_data_start", "daily_data_end",
   "monthly_data_start", "monthly_data_end"}

Ok(v) == [kind |-> "ok", exc |-> "", value |-> v]

Err(e) == [kind |-> "raise", exc |-> e, value |-> 0]

\* The number of columns of df[col].apply(split_date_range): the longest list
\* any row's split returned.
SplitWidth(df, col) == Max({Len(split_date_range(df[i][col])) : i \in 1..Len(df)})

\* One cell of that table: a row whose split returned fewer parts holds NaN.
SplitCell(parts, k) == IF k <= Len(parts) THEN Str(parts[k]) ELSE NaN

\* The range column each new column is split from, and the part it takes.
RangeOf ==
  [hourly_data_start |-> "hlyRange", hourly_data_end |-> "hlyRange",
   daily_data_start |-> "dlyRange", daily_data_end |-> "dlyRange",
   monthly_data_start |-> "mlyRange", monthly_data_end |-> "mlyRange"]

PartOf ==
  [hourly_data_start |-> 1, hourly_data_end |-> 2,
   daily_data_start |-> 1, daily_data_end |-> 2,
   monthly_data_start |-> 1, monthly_data_end |-> 2]

\* df[[start, end]] = df[col].apply(split_date_range), for the three ranges.
SplitRanges(df) ==
  [i \in 1..Len(df) |->
     [f \in DOMAIN df[i] \cup DateCols |->
        IF f \in DateCols
        THEN SplitCell(split_date_range(df[i][RangeOf[f]]), PartOf[f])
        ELSE df[i][f]]]

\* for col in cols_to_process: df[col] = pd.to_datetime(df[col], format='%Y-%m-%d')
ConvertDates(df) ==
  [i \in 1..Len(df) |->
     [f \in DOMAIN df[i] |-> IF f \in DateCols THEN ToDatetime(df[i][f]) ELSE df[i][f]]]

\* A drop that leaves the range strings in the table.
KeepColumns(df) == df

\* df.drop(columns=['hlyRange', 'dlyRange', 'mlyRange'])
DropColumns(df) ==
  [i \in 1..Len(df) |-> [f \in DOMAIN df[i] \ RangeCols |-> df[i][f]]]

\* The whole of process_station_dates on the table of the fetched rows.  An
\* empty table has no 'hlyRange' column; an assignment of a split that has not
\* exactly two columns to the two new columns raises; a cell that is not the
\* text of a date raises in the conversion.
process_station_dates(df) ==
  IF Len(df) = 0 THEN Err("KeyError")
  ELSE IF \E col \in RangeCols : SplitWidth(df, col) # 2 THEN Err("ValueError")
  ELSE LET converted == ConvertDates(SplitRanges(df))
       IN  IF \E i \in 1..Len(df) : \E f \in DateCols : converted[i][f] = Unparsable
           THEN Err("ValueError")
           ELSE Ok(DropColumns(converted))

\* The station id the provider gives the row at a position of the directory.
StationId(i) == 6000 + i

RawRow(i, prox, hly, dly, mly) ==
  [id |-> StationId(i), proximity |-> prox, prov |-> "PE",
   hlyRange |-> hly, dlyRange |-> dly, mlyRange |-> mly]

\* The range strings of the batches: both dates, no coverage, no separator,
\* and an end that is no date.
BatchRanges ==
  {<<Calendar[1], Pipe, Calendar[2]>>, <<Pipe>>, <<Calendar[1]>>,
   <<Calendar[1], Pipe, Garbage>>}

\* The hourly ranges of a batch: with and without a separator.
HourlyRanges == BatchRanges \ {<<Calendar[1], Pipe, Garbage>>}

\* The monthly ranges of a batch: with an end that is a date or is none.
MonthlyRanges == BatchRanges \ {<<Pipe>>, <<Calendar[1]>>}

RECURSIVE BatchesOfLen(_)
BatchesOfLen(n) ==
  IF n = 0 THEN {<<>>}
  ELSE {Append(b, RawRow(n, n, h, d, m)) :
          b \in BatchesOfLen(n - 1), h \in HourlyRanges, d \in BatchRanges,
          m \in MonthlyRanges}

Batches == UNION {BatchesOfLen(n) : n \in 0..MaxBatch}

\* ------------------------------------------------------------ choose_historical_station_id

\* A wall clock that is not moved back a day.
SameDay(day) == day

\* dt.datetime.today() - dt.timedelta(days=1)
Yesterday(day) == day - 1

\* The right-hand side of the filter: yesterday's date as '%Y-%m-%d' text, which
\* the comparison with a datetime column reads back as a datetime.
ReferenceDate(day) == ToDatetime(Str(<<Strftime(Yesterday(day))>>))

\* A filter that keeps every row that has a daily end at all.
AnyDailyEnd(df, day) == {i \in 1..Len(df) : df[i].daily_data_end # NaT}

\* df[df['daily_data_end'] == <yesterday>]: the positions of the rows kept
\* (NaT equals no date).
SelectedStations(df, day) ==
  {i \in 1..Len(df) : df[i].daily_data_end = ReferenceDate(day)}

\* The order of sort_values(by='proximity', ascending=True) with its default
\* kind, 'quicksort', which is not a stable sort: rows of equal proximity come
\* out in an order the library does not specify but that is fixed for a build,
\* here the rank tie gives each input position.
Before(df, tie, i, j) ==
  \/ df[i].proximity < df[j].proximity
  \/ df[i].proximity = df[j].proximity /\ tie[i] < tie[j]

RECURSIVE SortedBy(_, _, _, _)
SortedBy(df, tie, rows, desc) ==
  IF rows = {} THEN <<>>
  ELSE LET first ==
             CHOOSE i \in rows :
               \A j \in rows \ {i} :
                 IF desc THEN Before(df, tie, j, i) ELSE Before(df, tie, i, j)
       IN  <<first>> \o SortedBy(df, tie, rows \ {first}, desc)

\* sort_values(by='proximity', ascending=False)
SortValuesDescending(df, tie, rows) == SortedBy(df, tie, rows, TRUE)

SortValues(df, tie, rows) == SortedBy(df, tie, rows, FALSE)

\* selected_stations['id'].iloc[0] of the filtered, sorted table; iloc[0] of an
\* empty table raises IndexError.
choose_historical_station_id(df, day, tie) ==
  LET selected_stations == SortValues(df, tie, SelectedStations(df, day))
  IN  IF selected_stations = <<>> THEN Err("IndexError")
      ELSE Ok(df[selected_stations[1]].id)

Proximities == {-1, 0, 2}

DailyEnds == {NaT} \cup {Timestamp(d) : d \in Days}

\* A row of the table process_station_dates returns, with the columns
\* choose_historical_station_id reads and one it does not.
NormalizedRow(i, prox, dend) ==
  [id |-> StationId(i), proximity |-> prox, prov |-> "PE", daily_data_end |-> dend]

RECURSIVE TablesOfLen(_)
TablesOfLen(n) ==
  IF n = 0 THEN {<<>>}
  ELSE {Append(t, NormalizedRow(n, p, e)) :
          t \in TablesOfLen(n - 1), p \in Proximities, e \in DailyEnds}

Tables == UNION {TablesOfLen(n) : n \in 0..MaxRows}

\* The orders a build can give rows of equal proximity: a rank for each of n
\* input positions.
TieOrders(n) == {f \in [1..n -> 1..n] : \A i, j \in 1..n : f[i] = f[j] => i = j}

\* The days the wall clock can show.
ClockDays == 2..MaxDay

\* ------------------------------------------------------------ lookup_stations

\* What asyncio.run(get_historical_stations(...)) gives: the rows, or the
\* exception the collaborator raised.
Fetched(rows) == [kind |-> "ok", exc |-> "", rows |-> rows]

FetchFailed == [kind |-> "raise", exc |-> "FetchError", rows |-> <<>>]

\* The number of times lookup_stations calls get_historical_stations.
FetchCalls == 1

\* The whole of lookup_stations: the fetch, the table, process_station_dates,
\* choose_historical_station_id and int(station_id).  An exception of any step
\* ends the call with that exception; no step is wrapped or repeated.
lookup_stations(fetch, day, tie) ==
  IF fetch.kind = "raise" THEN Err(fetch.exc)
  ELSE LET stations_df == process_station_dates(fetch.rows)
       IN  IF stations_df.kind = "raise" THEN stations_df
           ELSE choose_historical_station_id(stations_df.value, day, tie)

\* The daily ranges of the fetched rows: an end on each day, no coverage, and
\* an end that is no date.
DailyRanges ==
  {<<Calendar[1], Pipe, Calendar[d]>> : d \in Days}
    \cup {<<Pipe>>, <<Calendar[1], Pipe, Garbage>>}

\* The proximities of the fetched rows.
FetchedProximities == Proximities \ {-1}

FullRange == <<Calendar[1], Pipe, Calendar[2]>>

RECURSIVE FetchedOfLen(_)
FetchedOfLen(n) ==
  IF n = 0 THEN {<<>>}
  ELSE {Append(b, RawRow(n, p, FullRange, d, FullRange)) :
          b \in FetchedOfLen(n - 1), p \in FetchedProximities, d \in DailyRanges}

FetchesUpTo(most) ==
  {FetchFailed} \cup {Fetched(b) : b \in UNION {FetchedOfLen(n) : n \in 0..most}}

FetchOutcomes == FetchesUpTo(MaxFetch)

ShownFetchOutcomes == FetchesUpTo(MaxShown)

\* ------------------------------------------------------------ update_displays

Sites == {"PE/s0000583", "ON/s0000430"}

\* What get_conditions gives display_conditions: the conditions, or an
\* exception of the client.
ConditionsOutcomes == {"ok", "raise"}

\* The metadata of ECHistorical: the keys display_historical reads, with the
\* text of each; a latitude that is no number makes float() raise.
MetadataKeys == {"name", "climate_identifier", "latitude", "longitude"}

Metadatas ==
  {[k \in MetadataKeys |-> "46.29"],
   [k \in MetadataKeys |-> IF k = "latitude" THEN "n/a" ELSE "46.29"],
   [k \in MetadataKeys \ {"name"} |-> "46.29"],
   [k \in MetadataKeys \ {"climate_identifier"} |-> "46.29"]}

IsFloat(text) == text = "46.29"

\* What get_historical_data gives display_historical: (metadata, history), or
\* an exception of the client.
HistoricalOutcomes ==
  {[kind |-> "raise", metadata |-> <<>>]}
    \cup {[kind |-> "ok", metadata |-> m] : m \in Metadatas}

Slot(site, stn) == [site |-> site, stn |-> stn]

Left(sess, e) == [session |-> sess, kind |-> "raise", exc |-> e]

\* display_conditions(station): the slot is assigned after get_conditions and
\* the formatting returned.
display_conditions(sess, site, cond) ==
  IF cond = "raise" THEN Left(sess, "ClientError")
  ELSE [session |-> [sess EXCEPT !.conditions = Slot(site, 0)], kind |-> "ok", exc |-> ""]

\* display_historical: lookup_stations, get_historical_data, then the four
\* assignments in their order, each after the expression on its right-hand
\* side was evaluated.
display_historical(sess, site, fetch, hist, day, tie) ==
  LET station_id == lookup_stations(fetch, day, tie)
  IN  IF station_id.kind = "raise" THEN Left(sess, station_id.exc)
      ELSE IF hist.kind = "raise" THEN Left(sess, "ClientError")
      ELSE LET stn == station_id.value
               metadata == hist.metadata
               s1 == [sess EXCEPT !.history = Slot(site, stn)]
               s2 == [s1 EXCEPT !.stn_name = Slot(site, stn)]
               s3 == [s2 EXCEPT !.stn_identifier = Slot(site, stn)]
               s4 == [s3 EXCEPT !.stn_location = Slot(site, stn)]
           IN  IF "name" \notin DOMAIN metadata THEN Left(s1, "KeyError")
               ELSE IF "climate_identifier" \notin DOMAIN metadata THEN Left(s2, "KeyError")
               ELSE IF ~IsFloat(metadata["latitude"]) \/ ~IsFloat(metadata["longitude"])
                    THEN Left(s3, "ValueError")
               ELSE [session |-> s4, kind |-> "ok", exc |-> ""]

\* update_displays(station): display_conditions, then display_historical.
update_displays(sess, site, cond, fetch, hist, day, tie) ==
  LET shown == display_conditions(sess, site, cond)
  IN  IF shown.kind = "raise" THEN shown
      ELSE display_historical(shown.session, site, fetch, hist, day, tie)

\* ------------------------------------------------------------ defaults

EmptySlot == [site |-> "", stn |-> 0]

\* if '<slot>' not in st.session_state: st.session_state.<slot> = empty
InitialSession ==
  [conditions |-> EmptySlot, history |-> EmptySlot, stn_name |-> EmptySlot,
   stn_identifier |-> EmptySlot, stn_location |-> EmptySlot]

Identity(n) == [i \in 1..n |-> i]

\* ------------------------------------------------------------ SpecParse

InitParse ==
  /\ arg \in RangeStrings
  /\ ret = NoCall
  /\ today = 2
  /\ tieOrder = Identity(1)
  /\ station = ""
  /\ session = InitialSession

SplitDateRange ==
  /\ ret.op = "none"
  /\ ret' = Return("split_date_range", split_date_range(arg), today, 0)
  /\ UNCHANGED <<today, tieOrder, arg, station, session>>

NextParse == SplitDateRange

SpecParse == InitParse /\ [][NextParse]_vars

\* ------------------------------------------------------------ SpecNormalize

InitNormalize ==
  /\ arg \in Batches
  /\ ret = NoCall
  /\ today = 2
  /\ tieOrder = Identity(1)
  /\ station = ""
  /\ session = InitialSession

ProcessStationDates ==
  /\ ret.op = "none"
  /\ LET r == process_station_dates(arg)
     IN  ret' = [op |-> "process_station_dates", kind |-> r.kind, exc |-> r.exc,
                 value |-> r.value, day |-> today, fetched |-> 0]
  /\ UNCHANGED <<today, tieOrder, arg, station, session>>

NextNormalize == ProcessStationDates

SpecNormalize == InitNormalize /\ [][NextNormalize]_vars

\* ------------------------------------------------------------ SpecSelect

InitSelect ==
  /\ arg \in Tables
  /\ today \in ClockDays
  /\ tieOrder \in TieOrders(Len(arg))
  /\ ret = NoCall
  /\ station = ""
  /\ session = InitialSession

ChooseHistoricalStationId ==
  /\ ret.op = "none"
  /\ LET r == choose_historical_station_id(arg, today, tieOrder)
     IN  ret' = [op |-> "choose_historical_station_id", kind |-> r.kind,
                 exc |-> r.exc, value |-> r.value, day |-> today, fetched |-> 0]
  /\ UNCHANGED <<today, tieOrder, arg, station, session>>

NextSelect == ChooseHistoricalStationId

SpecSelect == InitSelect /\ [][NextSelect]_vars

\* ------------------------------------------------------------ SpecLookup

\* The wall clock passes midnight.
Tick ==
  /\ today < MaxDay
  /\ today' = today + 1
  /\ UNCHANGED <<tieOrder, arg, ret, station, session>>

InitLookup ==
  /\ arg \in FetchOutcomes
  /\ today \in ClockDays
  /\ tieOrder \in TieOrders(Len(arg.rows))
  /\ ret = NoCall
  /\ station = ""
  /\ session = InitialSession

\* A call of lookup_stations; the collaborator answers every call alike.
LookupStations ==
  /\ LET r == lookup_stations(arg, today, tieOrder)
     IN  ret' = [op |-> "lookup_stations", kind |-> r.kind, exc |-> r.exc,
                 value |-> r.value, day |-> today, fetched |-> FetchCalls]
  /\ UNCHANGED <<today, tieOrder, arg, station, session>>

NextLookup == LookupStations \/ Tick

SpecLookup == InitLookup /\ [][NextLookup]_vars

\* ------------------------------------------------------------ SpecUI

InitUI ==
  /\ arg = <<>>
  /\ today \in ClockDays
  /\ tieOrder \in TieOrders(MaxShown)
  /\ ret = NoCall
  /\ station = ""
  /\ session = InitialSession

\* A run of the script: the sidebar's choice of a station, then the call
\* update_displays(station) that the button's on_click argument makes.
RunScript ==
  \E site \in Sites, cond \in ConditionsOutcomes, fetch \in ShownFetchOutcomes,
     hist \in HistoricalOutcomes :
    LET r == update_displays(session, site, cond, fetch, hist, today, tieOrder)
    IN  /\ station' = site
        /\ session' = r.session
        /\ ret' = [op |-> "update_displays", kind |-> r.kind, exc |-> r.exc,
                   value |-> 0, day |-> today, fetched |-> 0]
        /\ UNCHANGED <<today, tieOrder, arg>>

NextUI == RunScript \/ Tick

SpecUI == InitUI /\ [][NextUI]_vars

\* ------------------------------------------------------------ claims: select

Chosen == ret.op = "choose_historical_station_id"

\* The rows of the table whose daily data ends on the day before the call.
Fresh == {i \in 1..Len(arg) : arg[i].daily_data_end = Timestamp(ret.day - 1)}

Nearest == {i \in Fresh : \A j \in Fresh : arg[i].proximity <= arg[j].proximity}

\* C1: whenever choose_historical_station_id returns an id, it is the id of a
\* row of the input whose daily_data_end is exactly the reference date (the day
\* before the call); a row whose daily end is older, newer or missing is never
\* returned, however near it is.
SelectReturnsFresh ==
  (Chosen /\ ret.kind = "ok") => \E i \in Fresh : arg[i].id = ret.value

\* A stale row is strictly nearer than the row returned.
StaleRowNearer ==
  /\ Chosen
  /\ ret.kind = "ok"
  /\ \E i \in Fresh, j \in 1..Len(arg) :
       /\ arg[i].id = ret.value
       /\ j \notin Fresh
       /\ arg[j].proximity < arg[i].proximity

\* C2: on an empty table, or one in which no row's daily end is the reference
\* date, the choice completes and returns the absent result (no station id),
\* never an error.
SelectAbsentWhenNoneFresh ==
  (Chosen /\ Fresh = {}) =>
    (ret.kind = "ok" /\ \A i \in 1..Len(arg) : arg[i].id # ret.value)

\* C3: when at least one row's daily end is the reference date, the choice
\* returns the id of such a row, and no other such row has a smaller proximity
\* (zero and negative proximities ordered like any number).
SelectReturnsNearest ==
  (Chosen /\ Fresh # {}) =>
    (ret.kind = "ok" /\ \E i \in Nearest : arg[i].id = ret.value)

\* Two fresh rows of different proximity, the nearer one second and at zero or
\* below, and it is the one returned.
NearerOfTwoReturned ==
  /\ Chosen
  /\ ret.kind = "ok"
  /\ \E i, j \in Fresh :
       /\ j < i
       /\ arg[i].proximity < arg[j].proximity
       /\ arg[i].proximity <= 0
       /\ arg[i].id = ret.value

\* C4: the choice is stable: of the fresh rows that share the smallest
\* proximity, the id returned is that of the earliest in the input.
SelectIsStable ==
  (Chosen /\ ret.kind = "ok") => ret.value = arg[Min(Nearest)].id

\* ------------------------------------------------------------ claims: parse, normalize

Split == ret.op = "split_date_range"

DateTexts == {Calendar[d] : d \in Days}

\* The parts joined again with the separator.
Join(parts) ==
  IF Len(parts) = 1 THEN parts[1] ELSE parts[1] \o <<Pipe>> \o parts[2]

\* "start|end" with the text of a date on each side.
WellFormed(s) == Len(s) = 3 /\ s[1] \in DateTexts /\ s[2] = Pipe /\ s[3] \in DateTexts

\* C6: a string is split at its first "|" only, so that for a well-formed
\* "start|end" the parts are start and end as written, the date each converts
\* to is written back as the same text, and joining the parts with "|" gives
\* the input again.
SplitRoundTrip ==
  Split =>
    /\ PipePositions(arg) # {} =>
         /\ Len(ret.value) = 2
         /\ PipePositions(ret.value[1]) = {}
         /\ Join(ret.value) = arg
    /\ WellFormed(arg) =>
         /\ ret.value = <<<<arg[1]>>, <<arg[3]>>>>
         /\ \A k \in 1..2 :
              /\ ToDatetime(Str(ret.value[k])).kind = "ts"
              /\ <<Strftime(ToDatetime(Str(ret.value[k])).day)>> = ret.value[k]

\* A well-formed range with different dates was split.
WellFormedSplit == Split /\ WellFormed(arg) /\ arg[1] # arg[3]

Normalized == ret.op = "process_station_dates"

\* The date a side stands for when a side that is no date counts as absent.
Lenient(text) ==
  IF ToDatetime(Str(text)) = Unparsable THEN NaT ELSE ToDatetime(Str(text))

SidesAsClaimed(row, col, start, end) ==
  LET s == row[col]
      p == PipePositions(s)
  IN  IF p = {} THEN row[end] = NaT
      ELSE /\ row[start] = Lenient(SubSeq(s, 1, Min(p) - 1))
           /\ row[end] = Lenient(SubSeq(s, Min(p) + 1, Len(s)))

\* C5: a range string with no "|", or with a side that is no date, gives
\* absent for the affected side and keeps the valid side, and never raises; a
\* batch that mixes full and sparse or malformed rows is normalized whole.
NormalizeToleratesMalformed ==
  (Normalized /\ Len(arg) > 0) =>
    /\ ret.kind = "ok"
    /\ \A i \in 1..Len(arg) :
         LET out == [f \in DOMAIN ret.value[i] \cup RangeCols |->
                       IF f \in RangeCols THEN arg[i][f] ELSE ret.value[i][f]]
         IN  /\ SidesAsClaimed(out, "hlyRange", "hourly_data_start", "hourly_data_end")
             /\ SidesAsClaimed(out, "dlyRange", "daily_data_start", "daily_data_end")
             /\ SidesAsClaimed(out, "mlyRange", "monthly_data_start", "monthly_data_end")

\* C7: each returned row keeps every field that is no range string with its
\* value, holds exactly the six date fields besides, and holds none of the
\* three range strings.
NormalizeFrame ==
  (Normalized /\ ret.kind = "ok") =>
    /\ Len(ret.value) = Len(arg)
    /\ \A i \in 1..Len(arg) :
         /\ DOMAIN ret.value[i] = (DOMAIN arg[i] \ RangeCols) \cup DateCols
         /\ DOMAIN ret.value[i] \cap RangeCols = {}
         /\ \A f \in DOMAIN arg[i] \ RangeCols : ret.value[i][f] = arg[i][f]

\* A batch of a full row and a row without coverage was normalized.
MixedBatchNormalized ==
  /\ Normalized
  /\ ret.kind = "ok"
  /\ \E i, j \in 1..Len(arg) :
       /\ ret.value[i].daily_data_end # NaT
       /\ ret.value[j].daily_data_end = NaT
       /\ ret.value[j].id # ret.value[i].id

\* ------------------------------------------------------------ claims: lookup

Looked == ret.op = "lookup_stations"

SameResult(r1, r2) == r1.kind = r2.kind /\ r1.exc = r2.exc /\ r1.value = r2.value

\* The fetched rows whose daily range ends on the given day.
EndsOn(day) ==
  {i \in 1..Len(arg.rows) :
     LET s == arg.rows[i].dlyRange
     IN  Len(s) = 3 /\ s[2] = Pipe /\ s[3] = Calendar[day]}

LookupAbsentWithoutRetry ==
  Looked =>
    /\ ret.fetched = 1
    /\ arg.kind = "raise" => (ret.kind = "raise" /\ ret.exc = arg.exc)
    /\ (arg.kind = "ok" /\ EndsOn(ret.day - 1) = {}) =>
         (ret.kind = "ok" /\ \A i \in 1..Len(arg.rows) : arg.rows[i].id # ret.value)

\* ------------------------------------------------------------ claims: displays

\* C10: after each update_displays call the five session slots either all
\* describe the station of that call or are all as they were before it.
SlotsAllOrNothing ==
  [][\/ session' = session
     \/ \A k \in DOMAIN session' : session'[k].site = station']_vars

====
